---- MODULE Spec2Model ----
(***************************************************************************)
(* Model of jules-scratch/verification/verify_modal.py: one coroutine,     *)
(* main(), that drives a browser through a fixed sequence of awaited       *)
(* calls inside an `async with async_playwright()` block, run to           *)
(* completion by asyncio.run().                                            *)
(*                                                                         *)
(* Every `await` is a suspension point, so each awaited call is two        *)
(* steps: the call is issued (Call) and later it returns or raises         *)
(* (XxxReturn).  The browser, the page, modal.html and the output file     *)
(* are the environment the calls act on.                                   *)
(***************************************************************************)
EXTENDS Naturals, Sequences, FiniteSets

\* Number of consecutive invocations of the script that are explored.
MaxRuns == 2

\* The awaited browser operations of main(), in program order (lines 7-21).
Steps == <<"launch", "new_page", "goto", "eval_on_selector", "screenshot", "close">>

StepSet == {Steps[i] : i \in 1..Len(Steps)}

\* path= argument of page.screenshot (line 19).
OutPath == "jules-scratch/verification/modal_final_confirmation.png"

\* The literal assigned to el.textContent (line 16).
StatusText == "OCRing with gpt-4o..."

\* page.screenshot is called with path= only: full_page keeps its default.
FullPage == FALSE

\* Marker for "no element matches the selector".
NoElement == "<none>"

\* Texts the #api-status element may carry in modal.html.
ElemTexts == {NoElement, "", "Ready"}

\* modal.html in the working directory: absent, or a document with (or
\* without) an #api-status element, that fits the viewport or overflows it.
Modals ==
  {[exists |-> FALSE, elem |-> NoElement, overflow |-> FALSE]}
    \cup {[exists |-> TRUE, elem |-> t, overflow |-> o] :
            t \in ElemTexts, o \in BOOLEAN}

\* States of the file at OutPath.
Absent == [kind |-> "absent", regions |-> {}, text |-> ""]

Stale == [kind |-> "png", regions |-> {"viewport"}, text |-> "stale"]

Partial == [kind |-> "partial", regions |-> {}, text |-> ""]

\* A freshly opened page (about:blank).
BlankPage == [loaded |-> FALSE, elem |-> NoElement, overflow |-> FALSE]

NoPage == [loaded |-> FALSE, elem |-> "<no page>", overflow |-> FALSE]

VARIABLES
  run,        \* ordinal of the current invocation of the script
  pc,         \* position of main() / the process
  inflight,   \* browser operations issued and not yet returned
  exc,        \* exception propagating out of main(), or "none"
  pw,         \* the async_playwright() context: none / started / stopped
  browser,    \* the browser process: none / running / closed
  dom,        \* the page's document
  modal,      \* modal.html on disk
  outFile,    \* the file at OutPath
  file0,      \* the file at OutPath when the current run started
  written,    \* paths written by the current run
  log,        \* events of the current run, in order
  status,     \* exit status of the process (meaningful when pc = "done")
  prevStatus  \* exit status of the previous run, or "none"

vars == <<run, pc, inflight, exc, pw, browser, dom, modal, outFile, file0,
          written, log, status, prevStatus>>

Ev(op, ev) == [op |-> op, ev |-> ev]

Emit(op, ev) == log' = Append(log, Ev(op, ev))

\* ---- reading the log -------------------------------------------------------

Has(op, ev) == \E i \in 1..Len(log) : log[i] = Ev(op, ev)

Called(op) == Has(op, "call")

Ok(op) == Has(op, "ok")

Failed(op) == \E i \in 1..Len(log) :
                 log[i].op = op /\ log[i].ev \notin {"call", "ok"}

Idx(op, ev) == CHOOSE i \in 1..Len(log) : log[i] = Ev(op, ev)

NumCalls(op) == Cardinality({i \in 1..Len(log) : log[i] = Ev(op, "call")})

\* ---- program order ---------------------------------------------------------

SuccEvalFirst(op) ==
  CASE op = "launch" -> "new_page"
    [] op = "new_page" -> "eval_on_selector"
    [] op = "eval_on_selector" -> "goto"
    [] op = "goto" -> "screenshot"
    [] op = "screenshot" -> "close"
    [] op = "close" -> "aexit"

SuccShotFirst(op) ==
  CASE op = "launch" -> "new_page"
    [] op = "new_page" -> "goto"
    [] op = "goto" -> "screenshot"
    [] op = "screenshot" -> "eval_on_selector"
    [] op = "eval_on_selector" -> "close"
    [] op = "close" -> "aexit"

\* The statement that follows a successfully awaited call; after
\* browser.close() the with-block is left normally.
Succ(op) ==
  CASE op = "launch" -> "new_page"
    [] op = "new_page" -> "goto"
    [] op = "goto" -> "eval_on_selector"
    [] op = "eval_on_selector" -> "screenshot"
    [] op = "screenshot" -> "close"
    [] op = "close" -> "aexit"

Advance(op) == pc' = Succ(op) /\ exc' = exc

RaiseAndContinue(op, e) == pc' = Succ(op) /\ exc' = e

RaiseViaClose(op, e) ==
  /\ pc' = IF op = "close" THEN "aexit" ELSE "close"
  /\ exc' = e

\* An awaited call raises: nothing in main() catches it, so the body of the
\* with-block is abandoned and the context manager's __aexit__ runs.
Raise(op, e) == pc' = "aexit" /\ exc' = e

\* ---- outcomes of the browser operations ------------------------------------

LaunchResults == {"ok", "EnvFault"}

NewPageResults == {"ok", "EnvFault"}

GotoResultsLenient(m) == {"ok", "EnvFault"}

\* page.goto(file URL): a missing file is a navigation error; an existing one
\* loads, unless the default timeout strikes.
GotoResults(m) == IF m.exists THEN {"ok", "EnvFault"} ELSE {"NotFound"}

EvalResultsLenient(d) == {"ok", "EnvFault"}

\* page.eval_on_selector raises when no element matches the selector.
EvalResults(d) == IF d.elem = NoElement THEN {"NoElement"} ELSE {"ok", "EnvFault"}

CaptureFullPage(d) ==
  [kind |-> "png",
   regions |-> {"viewport"} \cup (IF d.overflow THEN {"below"} ELSE {}),
   text |-> d.elem]

\* The regions of the document: what a viewer can scroll to.
PageRegions(d) == {"viewport"} \cup (IF d.overflow THEN {"below"} ELSE {})

\* The image page.screenshot renders: the whole document when full_page is
\* set, the viewport otherwise.
Capture(d) ==
  [kind |-> "png",
   regions |-> IF FullPage THEN PageRegions(d) ELSE {"viewport"},
   text |-> d.elem]

ScreenshotResultsExclusive(f, d) ==
  IF f.kind # "absent"
    THEN {[ev |-> "FileExists", file |-> f, wrote |-> FALSE]}
    ELSE {[ev |-> "ok", file |-> Capture(d), wrote |-> TRUE],
          [ev |-> "EnvFault", file |-> f, wrote |-> FALSE],
          [ev |-> "WriteError", file |-> f, wrote |-> FALSE],
          [ev |-> "WriteError", file |-> Partial, wrote |-> TRUE]}

\* page.screenshot(path=...): the image is rendered, then the file at path is
\* opened for writing (created or truncated) and the bytes written.  The
\* rendering may time out (file untouched); the write may fail before or after
\* the file was truncated.
ScreenshotResults(f, d) ==
  {[ev |-> "ok", file |-> Capture(d), wrote |-> TRUE],
   [ev |-> "EnvFault", file |-> f, wrote |-> FALSE],
   [ev |-> "WriteError", file |-> f, wrote |-> FALSE],
   [ev |-> "WriteError", file |-> Partial, wrote |-> TRUE]}

CloseResults == {"ok", "EnvFault"}

ExitStatusZero(e) == IF e = "none" THEN 0 ELSE 0

\* asyncio.run(main()) returns normally or lets the exception reach the top
\* level, where the interpreter exits with status 1.
ExitStatus(e) == IF e = "none" THEN 0 ELSE 1

\* ---- the state machine -----------------------------------------------------

Init ==
  /\ run = 1
  /\ pc = "enter"
  /\ inflight = {}
  /\ exc = "none"
  /\ pw = "none"
  /\ browser = "none"
  /\ dom = NoPage
  /\ modal \in Modals
  /\ outFile \in {Absent, Stale}
  /\ file0 = outFile
  /\ written = {}
  /\ log = <<>>
  /\ status = "none"
  /\ prevStatus = "none"

\* line 6: async_playwright().__aenter__ starts the driver.  If it fails the
\* with-block is never entered and __aexit__ is not run.
AEnter ==
  /\ pc = "enter"
  /\ \E r \in {"ok", "EnvFault"} :
       /\ Emit("aenter", r)
       /\ IF r = "ok"
            THEN pw' = "started" /\ pc' = "launch" /\ exc' = exc
            ELSE pw' = pw /\ pc' = "ret" /\ exc' = r
  /\ UNCHANGED <<run, inflight, browser, dom, modal, outFile, file0, written,
                 status, prevStatus>>

\* An awaited call is issued and main() suspends on it.
Call(op) ==
  /\ pc = op
  /\ op \notin inflight
  /\ inflight' = inflight \cup {op}
  /\ Emit(op, "call")
  /\ UNCHANGED <<run, pc, exc, pw, browser, dom, modal, outFile, file0,
                 written, status, prevStatus>>

\* line 7
LaunchReturn ==
  /\ "launch" \in inflight
  /\ inflight' = inflight \ {"launch"}
  /\ \E r \in LaunchResults :
       /\ Emit("launch", r)
       /\ IF r = "ok"
            THEN browser' = "running" /\ Advance("launch")
            ELSE browser' = browser /\ Raise("launch", r)
  /\ UNCHANGED <<run, pw, dom, modal, outFile, file0, written, status,
                 prevStatus>>

\* line 8
NewPageReturn ==
  /\ "new_page" \in inflight
  /\ inflight' = inflight \ {"new_page"}
  /\ \E r \in NewPageResults :
       /\ Emit("new_page", r)
       /\ IF r = "ok"
            THEN dom' = BlankPage /\ Advance("new_page")
            ELSE dom' = dom /\ Raise("new_page", r)
  /\ UNCHANGED <<run, pw, browser, modal, outFile, file0, written, status,
                 prevStatus>>

\* lines 11-12
GotoReturn ==
  /\ "goto" \in inflight
  /\ inflight' = inflight \ {"goto"}
  /\ \E r \in GotoResults(modal) :
       /\ Emit("goto", r)
       /\ IF r = "ok"
            THEN /\ dom' = [loaded |-> TRUE, elem |-> modal.elem,
                            overflow |-> modal.overflow]
                 /\ Advance("goto")
            ELSE dom' = dom /\ Raise("goto", r)
  /\ UNCHANGED <<run, pw, browser, modal, outFile, file0, written, status,
                 prevStatus>>

\* lines 15-17
EvalReturn ==
  /\ "eval_on_selector" \in inflight
  /\ inflight' = inflight \ {"eval_on_selector"}
  /\ \E r \in EvalResults(dom) :
       /\ Emit("eval_on_selector", r)
       /\ IF r = "ok"
            THEN /\ dom' = IF dom.elem = NoElement
                             THEN dom
                             ELSE [dom EXCEPT !.elem = StatusText]
                 /\ Advance("eval_on_selector")
            ELSE dom' = dom /\ Raise("eval_on_selector", r)
  /\ UNCHANGED <<run, pw, browser, modal, outFile, file0, written, status,
                 prevStatus>>

\* line 19
ScreenshotReturn ==
  /\ "screenshot" \in inflight
  /\ inflight' = inflight \ {"screenshot"}
  /\ \E r \in ScreenshotResults(outFile, dom) :
       /\ Emit("screenshot", r.ev)
       /\ outFile' = r.file
       /\ written' = IF r.wrote THEN written \cup {OutPath} ELSE written
       /\ IF r.ev = "ok"
            THEN Advance("screenshot")
            ELSE Raise("screenshot", r.ev)
  /\ UNCHANGED <<run, pw, browser, dom, modal, file0, status, prevStatus>>

\* line 21
CloseReturn ==
  /\ "close" \in inflight
  /\ inflight' = inflight \ {"close"}
  /\ \E r \in CloseResults :
       /\ Emit("close", r)
       /\ IF r = "ok"
            THEN browser' = "closed" /\ Advance("close")
            ELSE browser' = browser /\ Raise("close", r)
  /\ UNCHANGED <<run, pw, dom, modal, outFile, file0, written, status,
                 prevStatus>>

AExitLeak ==
  /\ pc = "aexit"
  /\ pw' = "stopped"
  /\ pc' = "ret"
  /\ Emit("aexit", "ok")
  /\ UNCHANGED <<run, inflight, exc, browser, dom, modal, outFile, file0,
                 written, status, prevStatus>>

\* line 6, leaving the with-block (normally or by exception): __aexit__ stops
\* the Playwright driver, which takes down a browser it still has running.
\* A pending exception is not suppressed.
AExit ==
  /\ pc = "aexit"
  /\ pw' = "stopped"
  /\ browser' = IF browser = "running" THEN "closed" ELSE browser
  /\ pc' = "ret"
  /\ Emit("aexit", "ok")
  /\ UNCHANGED <<run, inflight, exc, dom, modal, outFile, file0, written,
                 status, prevStatus>>

\* lines 23-24: asyncio.run(main()) is over and the process exits.
ProcessExit ==
  /\ pc = "ret"
  /\ status' = ExitStatus(exc)
  /\ pc' = "done"
  /\ UNCHANGED <<run, inflight, exc, pw, browser, dom, modal, outFile, file0,
                 written, log, prevStatus>>

\* The script is invoked again, in the same directory.
Rerun ==
  /\ pc = "done"
  /\ run < MaxRuns
  /\ run' = run + 1
  /\ pc' = "enter"
  /\ inflight' = {}
  /\ exc' = "none"
  /\ pw' = "none"
  /\ browser' = "none"
  /\ dom' = NoPage
  /\ file0' = outFile
  /\ written' = {}
  /\ log' = <<>>
  /\ prevStatus' = status
  /\ status' = "none"
  /\ UNCHANGED <<modal, outFile>>

Next ==
  \/ AEnter
  \/ \E op \in StepSet : Call(op)
  \/ LaunchReturn
  \/ NewPageReturn
  \/ GotoReturn
  \/ EvalReturn
  \/ ScreenshotReturn
  \/ CloseReturn
  \/ AExit
  \/ ProcessExit
  \/ Rerun

Spec == Init /\ [][Next]_vars

\* ---- properties ------------------------------------------------------------

FailureEvents == {"EnvFault", "NotFound", "NoElement", "WriteError", "FileExists"}

Ended == pc \in {"ret", "done"}

\* C1: in every run in which chromium.launch succeeded, the browser session
\* has been released (and the Playwright context stopped) by the time main()
\* is over, whether the run succeeded or a later step failed.
C1_SessionReleased ==
  (Ended /\ Ok("launch")) => (browser = "closed" /\ pw = "stopped")

C1_Witness ==
  /\ pc = "done"
  /\ Ok("launch")
  /\ Failed("goto")
  /\ browser = "closed"

\* C2: the mutation is issued only after page.goto has completed, and the
\* screenshot is issued (and the file written) only after the mutation was
\* issued.
C2_Order ==
  /\ Called("eval_on_selector") =>
       /\ Ok("goto")
       /\ Idx("goto", "ok") < Idx("eval_on_selector", "call")
  /\ Called("screenshot") =>
       /\ Called("eval_on_selector")
       /\ Idx("eval_on_selector", "call") < Idx("screenshot", "call")
  /\ written # {} => Called("eval_on_selector")

C2_Witness ==
  /\ Ok("screenshot")
  /\ Idx("goto", "ok") < Idx("eval_on_selector", "call")
  /\ Idx("eval_on_selector", "call") < Idx("screenshot", "call")

\* C3: when modal.html loaded but has no element matching the selector,
\* eval_on_selector never succeeds, the screenshot step is never issued, the
\* output file stays as it was when the run started, and a finished run has
\* failed with that error, exited non-zero and released the session.
C3_NoElementAborts ==
  (modal.exists /\ modal.elem = NoElement /\ Ok("goto")) =>
     /\ ~Ok("eval_on_selector")
     /\ ~Called("screenshot")
     /\ outFile = file0
     /\ written = {}
     /\ Ended => (Failed("eval_on_selector") /\ exc = "NoElement"
                    /\ browser = "closed")
     /\ pc = "done" => status = 1

C3_Witness ==
  /\ pc = "done"
  /\ modal.exists
  /\ modal.elem = NoElement
  /\ Failed("eval_on_selector")
  /\ file0 = Stale
  /\ outFile = Stale

\* C4: an absent modal.html makes page.goto fail, and whenever page.goto
\* fails neither the mutation nor the screenshot is issued, the output file
\* is as it was when the run started, and the session is released.
C4_GotoFailureAborts ==
  /\ ~modal.exists => ~Ok("goto")
  /\ Failed("goto") =>
       /\ ~Called("eval_on_selector")
       /\ ~Called("screenshot")
       /\ outFile = file0
       /\ written = {}
       /\ Ended => browser = "closed"
       /\ pc = "done" => status = 1

C4_Witness ==
  /\ pc = "done"
  /\ ~modal.exists
  /\ Failed("goto")
  /\ ~Called("eval_on_selector")
  /\ browser = "closed"

\* C5: while the screenshot is being taken the element's text is the literal
\* 'OCRing with gpt-4o...', and so is the text in the image a successful
\* screenshot wrote, whatever the element's text in modal.html.
C5_TextAtCapture ==
  /\ "screenshot" \in inflight => dom.elem = "OCRing with gpt-4o..."
  /\ Ok("screenshot") => outFile.text = "OCRing with gpt-4o..."

C5_Witness ==
  /\ Ok("screenshot")
  /\ modal.elem = "Ready"
  /\ outFile.text = "OCRing with gpt-4o..."

C7_ExitStatus ==
  /\ \A op \in StepSet : Failed(op) => exc \in FailureEvents
  /\ pc = "done" =>
       /\ status \in {0, 1}
       /\ status = 0 <=> (\A op \in StepSet : Ok(op))
       /\ status = 1 <=> exc # "none"

C7_Witness ==
  /\ pc = "done"
  /\ Failed("close")
  /\ \A op \in StepSet \ {"close"} : Ok(op)
  /\ status = 1

NoEnvFault ==
  \A i \in 1..Len(log) : log[i].ev \notin {"EnvFault", "WriteError"}

\* C8: a run that follows a successful run, and meets no environmental fault
\* of its own, succeeds too although the output file exists, and leaves at
\* the output path the same single file the first run left.
C8_RerunOverwrites ==
  (run > 1 /\ pc = "done" /\ prevStatus = 0 /\ NoEnvFault) =>
     /\ status = 0
     /\ file0.kind = "png"
     /\ outFile = file0
     /\ written = {OutPath}

C8_Witness ==
  /\ run = 2
  /\ pc = "done"
  /\ prevStatus = 0
  /\ status = 0
  /\ file0.kind = "png"
  /\ outFile = file0

\* C9: each step is issued at most once per run, at most one operation is in
\* flight, and after a failure no further step is issued: the only events
\* that follow are the exit of the with-block.
C9_LinearNoRetry ==
  /\ \A op \in StepSet : NumCalls(op) <= 1
  /\ Cardinality(inflight) <= 1
  /\ \A i \in 1..Len(log) : \A j \in 1..Len(log) :
       (i < j /\ log[i].ev \in FailureEvents) => log[j] = Ev("aexit", "ok")

C9_Witness ==
  /\ pc = "done"
  /\ Failed("new_page")
  /\ ~Called("goto")
  /\ NumCalls("new_page") = 1

\* C10: browser.close() is issued exactly in the runs where launch, new_page,
\* goto, eval_on_selector and screenshot all succeeded; in a run where the
\* browser was launched and a later step failed, close is skipped and the
\* browser is taken down by the exit of the async_playwright() context.
C10_CloseOnlyOnSuccess ==
  /\ Called("close") => (\A op \in StepSet \ {"close"} : Ok(op))
  /\ Ended =>
       /\ (\A op \in StepSet \ {"close"} : Ok(op)) => Called("close")
       /\ (Ok("launch") /\ ~Called("close")) =>
            (Has("aexit", "ok") /\ browser = "closed")

C10_Witness ==
  /\ pc = "done"
  /\ Failed("screenshot")
  /\ ~Called("close")
  /\ Has("aexit", "ok")
  /\ browser = "closed"

====
